---- MODULE Spec2Model ----
(***************************************************************************)
(* A model of the small radio telescope control daemon                     *)
(* (src/daemon/daemon.py, class SmallRadioTelescopeDaemon).                *)
(*                                                                         *)
(* Threads: the command interpreter (srt_daemon_main), the ephemeris       *)
(* updater (update_ephemeris_location), the rotor servo                    *)
(* (update_rotor_status), command ingress (update_command_queue) and the   *)
(* status publisher (update_status).  Every statement that reads or writes *)
(* a field another thread writes or reads is a step of its own; purely     *)
(* local computation is folded into the step before it.                    *)
(*                                                                         *)
(* Representation.                                                         *)
(*  - A Python str is a sequence of one-character strings, so that len,    *)
(*    indexing, strip, split, lower, isnumeric and float are computed.     *)
(*  - A Python float is a fixed-point integer in thousandths (Milli): an   *)
(*    angle of 180.5 degrees is 180500, a sample rate of 2.4 MHz is 2400   *)
(*    and 2.4e6 Hz is 2400 * Milli.                                        *)
(*  - None is the value None below; a recording task is an index into      *)
(*    save_tasks, the record of every RadioSaveRawTask ever constructed.   *)
(*  - A log entry is <<message template, argument>>; the time stamp of     *)
(*    log_message is left out.                                             *)
(***************************************************************************)
EXTENDS Integers, Sequences, FiniteSets, TLC

(***************************************************************************)
(* Bounds of the model.                                                    *)
(***************************************************************************)
\* commands the ingress receives in one run
MaxCmds == 2
\* commands of a scan session (tracks of the Sun, then at most one scan)
MaxScanCmds == 1
\* malformed rotor responses (ValueError on read) in one run
MaxGlitches == 1
\* out-of-bounds goto attempts of the servo that are logged in one run
MaxRefusals == 1

(***************************************************************************)
(* Python values.                                                          *)
(***************************************************************************)
\* fixed-point resolution of a float: units per degree, per MHz
Milli == 1000

\* Python's None; no str equals it (a str is a sequence of 1-character strings)
None == <<"<None>">>

Abs(x) == IF x < 0 THEN -x ELSE x

\* float division rounded toward zero
TruncDiv(a, b) ==
    IF b = 0 THEN 0
    ELSE IF (a >= 0) = (b > 0) THEN Abs(a) \div Abs(b)
    ELSE -(Abs(a) \div Abs(b))

\* operator.add mapped over two pairs
AddPose(p, q) == <<p[1] + q[1], p[2] + q[2]>>

Digits == <<"0", "1", "2", "3", "4", "5", "6", "7", "8", "9">>
UpperCase == <<"A", "B", "C", "D", "E", "F", "G", "H", "I", "J", "K", "L", "M",
               "N", "O", "P", "Q", "R", "S", "T", "U", "V", "W", "X", "Y", "Z">>
LowerCase == <<"a", "b", "c", "d", "e", "f", "g", "h", "i", "j", "k", "l", "m",
               "n", "o", "p", "q", "r", "s", "t", "u", "v", "w", "x", "y", "z">>
Whitespace == {" ", "\t"}

IsDigit(c) == \E i \in 1..10 : Digits[i] = c
DigitVal(c) == (CHOOSE i \in 1..10 : Digits[i] = c) - 1

\* str.lower()
LowerChar(c) ==
    IF \E i \in 1..26 : UpperCase[i] = c
    THEN LowerCase[CHOOSE i \in 1..26 : UpperCase[i] = c]
    ELSE c
Lower(s) == [i \in 1..Len(s) |-> LowerChar(s[i])]

\* str.strip()
RECURSIVE LStrip(_)
LStrip(s) ==
    IF s # <<>> /\ Head(s) \in Whitespace THEN LStrip(Tail(s)) ELSE s
RECURSIVE RStrip(_)
RStrip(s) ==
    IF s # <<>> /\ s[Len(s)] \in Whitespace
    THEN RStrip(SubSeq(s, 1, Len(s) - 1)) ELSE s
Strip(s) == RStrip(LStrip(s))

\* str.split(" "): every single space separates, empty parts are kept
RECURSIVE SplitFrom(_, _, _)
SplitFrom(s, i, cur) ==
    IF i > Len(s) THEN <<cur>>
    ELSE IF s[i] = " " THEN <<cur>> \o SplitFrom(s, i + 1, <<>>)
    ELSE SplitFrom(s, i + 1, Append(cur, s[i]))
Split(s) == SplitFrom(s, 1, <<>>)

\* str.isnumeric()
IsNumeric(s) == s # <<>> /\ \A i \in 1..Len(s) : IsDigit(s[i])

RECURSIVE DigitsVal(_)
DigitsVal(s) ==
    IF s = <<>> THEN 0
    ELSE 10 * DigitsVal(SubSeq(s, 1, Len(s) - 1)) + DigitVal(s[Len(s)])

\* float(s), decimal literals: [sign] digits [. digits] with at least one digit
\* and at most three decimals kept; anything else raises ValueError (ok = FALSE)
FloatBody(s) ==
    LET dots == {i \in 1..Len(s) : s[i] = "."}
        dot  == IF dots = {} THEN Len(s) + 1 ELSE CHOOSE i \in dots : TRUE
        ip   == SubSeq(s, 1, dot - 1)
        fp   == SubSeq(s, dot + 1, Len(s))
        fp3  == SubSeq(fp \o <<"0", "0", "0">>, 1, 3)
        good == /\ Cardinality(dots) <= 1
                /\ Len(ip) + Len(fp) >= 1
                /\ \A i \in 1..Len(ip) : IsDigit(ip[i])
                /\ \A i \in 1..Len(fp) : IsDigit(fp[i])
    IN  IF good THEN [ok |-> TRUE, val |-> DigitsVal(ip) * Milli + DigitsVal(fp3)]
        ELSE [ok |-> FALSE, val |-> 0]
Float(s) ==
    LET t == Strip(s) IN
    IF t # <<>> /\ t[1] = "-"
    THEN LET r == FloatBody(Tail(t)) IN [ok |-> r.ok, val |-> -r.val]
    ELSE IF t # <<>> /\ t[1] = "+" THEN FloatBody(Tail(t))
    ELSE FloatBody(t)

\* 1000 * cos(d degrees), d a whole number of degrees 0..90
CosTable ==
    <<1000, 1000, 999, 999, 998, 996, 995, 993, 990, 988, 985, 982, 978, 974,
      970, 966, 961, 956, 951, 946, 940, 934, 927, 921, 914, 906, 899, 891,
      883, 875, 866, 857, 848, 839, 829, 819, 809, 799, 788, 777, 766, 755,
      743, 731, 719, 707, 695, 682, 669, 656, 643, 629, 616, 602, 588, 574,
      559, 545, 530, 515, 500, 485, 469, 454, 438, 423, 407, 391, 375, 358,
      342, 326, 309, 292, 276, 259, 242, 225, 208, 191, 174, 156, 139, 122,
      105, 87, 70, 52, 35, 17, 0>>

\* 1000 * np.cos(el * np.pi / 180.0), el in thousandths of a degree
Cos(el) ==
    LET d == Abs(el) \div Milli
        r == d % 360
    IN  IF r <= 90 THEN CosTable[r + 1]
        ELSE IF r <= 180 THEN -CosTable[180 - r + 1]
        ELSE IF r <= 270 THEN -CosTable[r - 180 + 1]
        ELSE CosTable[360 - r + 1]

\* num / np.cos(el * np.pi / 180.0).  np.cos never returns exactly 0 (at 90
\* degrees it is 6.1e-17), so the quotient there is finite and of the order
\* 1e16 * num: a swing far outside any limits, kept here as SingularGain * num.
SingularGain == 100000
DivCos(num, el) ==
    IF Cos(el) = 0 THEN num * SingularGain
    ELSE TruncDiv(num * 1000, Cos(el))

(***************************************************************************)
(* Configuration (config.yaml, sky_coords.csv) and the collaborators the   *)
(* daemon imports: the rotor driver, azel_within_range, the ephemeris      *)
(* tracker.                                                                *)
(***************************************************************************)
az_limits == <<0, 360000>>
el_limits == <<0, 90000>>
stow_location == <<0, 90000>>
config_motor_offsets == <<0, -5000>>
beamwidth == 2000
config_radio_cf == 1420000000
config_radio_sf == 2400000

Sun == <<"S", "u", "n">>
Cas == <<"C", "a", "s">>
ObjectKeys == {Sun, Cas}

\* the positions EphemerisTracker.get_all_azimuth_elevation can report: the
\* Sun rises, moves and sets; Cas sits on the upper az and el limits
SkyPositions(k) ==
    IF k = Sun THEN {<<120000, 30000>>, <<121000, 30000>>, <<250000, -5000>>}
    ELSE {<<360000, 90000>>}
Catalogs == {c \in [ObjectKeys -> UNION {SkyPositions(k) : k \in ObjectKeys}] :
                \A k \in ObjectKeys : c[k] \in SkyPositions(k)}

\* Rotor.angles_within_bounds(az, el): both limits inclusive
angles_within_bounds(p) ==
    /\ az_limits[1] <= p[1] /\ p[1] <= az_limits[2]
    /\ el_limits[1] <= p[2] /\ p[2] <= el_limits[2]

\* utilities.functions.azel_within_range: both components differ by less
\* than the tolerance
Tolerance == 1000
azel_within_range(p, q) ==
    Abs(p[1] - q[1]) < Tolerance /\ Abs(p[2] - q[2]) < Tolerance

(***************************************************************************)
(* Command strings.                                                        *)
(***************************************************************************)
str_None == <<"N", "o", "n", "e">>
cmd_stow == <<"s", "t", "o", "w">>
cmd_quit == <<"q", "u", "i", "t">>
cmd_record == <<"r", "e", "c", "o", "r", "d">>
cmd_roff == <<"r", "o", "f", "f">>
cmd_samp_2_4 == <<"s", "a", "m", "p", " ", "2", ".", "4">>
cmd_samp_1 == <<"s", "a", "m", "p", " ", "1">>
cmd_samp_noarg == <<"s", "a", "m", "p">>
cmd_samp_bad == <<"s", "a", "m", "p", " ", "x">>
cmd_freq_1420 == <<"f", "r", "e", "q", " ", "1", "4", "2", "0">>
cmd_Sun == <<"S", "u", "n">>
cmd_Cas == <<"C", "a", "s">>
cmd_Sun_n == <<"S", "u", "n", " ", "n">>
cmd_Sun_b == <<"S", "u", "n", " ", "b">>
cmd_Cas_n == <<"C", "a", "s", " ", "n">>
cmd_Cas_b == <<"C", "a", "s", " ", "b">>
cmd_azel_180_45 == <<"a", "z", "e", "l", " ", "1", "8", "0", " ", "4", "5">>
cmd_azel_355_45 == <<"a", "z", "e", "l", " ", "3", "5", "5", " ", "4", "5">>
cmd_azel_400_45 == <<"a", "z", "e", "l", " ", "4", "0", "0", " ", "4", "5">>
cmd_azel_360_90 == <<"a", "z", "e", "l", " ", "3", "6", "0", " ", "9", "0">>
cmd_offset_10_0 == <<"o", "f", "f", "s", "e", "t", " ", "1", "0", " ", "0">>
cmd_offset_0_0 == <<"o", "f", "f", "s", "e", "t", " ", "0", " ", "0">>
cmd_offset_m5_2 == <<"o", "f", "f", "s", "e", "t", " ", "-", "5", " ", "2", ".", "5">>
cmd_wait_1 == <<"w", "a", "i", "t", " ", "1">>
cmd_10 == <<"1", "0">>
cmd_comment == <<"*", "x">>
cmd_short == <<"x">>
cmd_blank == <<" ", " ">>
cmd_colon_stow == <<":", " ", "s", "t", "o", "w">>
cmd_bogus == <<"b", "o", "g", "u", "s">>
cmd_calibrate == <<"c", "a", "l", "i", "b", "r", "a", "t", "e">>
cmd_STOW == <<"S", "T", "O", "W">>

(***************************************************************************)
(* State.                                                                  *)
(***************************************************************************)
VARIABLES
    \* fields of SmallRadioTelescopeDaemon
    ephemeris_locations,      \* object key -> (az, el)
    ephemeris_cmd_location,   \* None or the tracked object key
    rotor_location,           \* measured pose
    rotor_cmd_location,       \* commanded pose
    motor_offsets,
    radio_center_frequency,
    radio_sample_frequency,
    radio_save_raw_task,      \* <<>> (None) or <<i>>, i an index of save_tasks
    cal_power,                \* with cal_values, from calibration.json
    current_queue_item,
    command_queue,
    command_error_logs,
    \* the command interpreter: position and locals of srt_daemon_main
    pc_main,
    keep_running,
    command,
    command_parts,
    new_rotor_cmd_location,
    scan,
    j,
    exc,                      \* the exception being handled: its str(e)
    \* the ephemeris updater: position and local
    pc_eph,
    eph_new_rotor_cmd_location,
    \* the rotor servo
    pc_rotor,
    \* outside the daemon
    save_tasks,               \* every RadioSaveRawTask constructed: rate, state
    radio_process_task,       \* state of the RadioProcessTask
    rpc,                      \* what the radio RPC server has been told
    radio_up,                 \* whether the RPC server accepts connections
    rotor_target,             \* pose the rotor hardware was last sent to
    rotor_position,           \* pose of the rotor hardware
    rotor_garbled,            \* the next rotor response is malformed
    status,                   \* the last snapshot the status publisher sent
    \* bookkeeping of the run
    received,                 \* every command enqueued, in order
    glitches,                 \* malformed rotor responses so far
    refusals,                 \* out-of-bounds goto attempts logged so far
    dwells,                   \* sleep(5) dwells of the scan in progress
    eph_cycle                 \* the update cycle in progress: the tracked
                              \* object it began with, and whether the
                              \* object stayed the same

pointVars == <<ephemeris_cmd_location, rotor_cmd_location, motor_offsets,
               eph_cycle>>
radioVars == <<radio_center_frequency, radio_sample_frequency,
               radio_save_raw_task, save_tasks, radio_process_task, rpc,
               cal_power>>
queueVars == <<current_queue_item, command_queue>>
localVars == <<keep_running, command, command_parts, new_rotor_cmd_location,
               scan, j, exc, dwells>>
ephVars == <<pc_eph, eph_new_rotor_cmd_location>>
rotorVars == <<rotor_target, rotor_position, rotor_garbled, glitches>>
\* what no step of the command interpreter changes
notMain == <<ephemeris_locations, rotor_location, ephVars, pc_rotor, rotorVars,
             radio_up, received, refusals, status>>
vars == <<pointVars, radioVars, queueVars, localVars, notMain, pc_main,
          command_error_logs>>

\* log_message(message)
log_message(log, template, arg) == Append(log, <<template, arg>>)

NoTask == <<>>

\* the recording sessions that were started and not terminated
LiveTasks == {i \in 1..Len(save_tasks) : save_tasks[i].state = "started"}

\* SmallRadioTelescopeDaemon.__init__
Init ==
    /\ ephemeris_locations \in Catalogs
    /\ ephemeris_cmd_location = None
    /\ rotor_location = stow_location
    /\ rotor_cmd_location = AddPose(stow_location, config_motor_offsets)
    /\ motor_offsets = config_motor_offsets
    /\ radio_center_frequency = config_radio_cf
    /\ radio_sample_frequency = config_radio_sf
    /\ radio_save_raw_task = NoTask
    /\ cal_power = 1
    /\ current_queue_item = str_None
    /\ command_queue = <<>>
    /\ command_error_logs = <<>>
    /\ pc_main = "start"
    /\ keep_running = TRUE
    /\ command = <<>>
    /\ command_parts = <<>>
    /\ new_rotor_cmd_location = <<0, 0>>
    /\ scan = 0
    /\ j = 0
    /\ exc = <<>>
    /\ pc_eph = "idle"
    /\ eph_new_rotor_cmd_location = <<0, 0>>
    /\ pc_rotor = "idle"
    /\ save_tasks = <<>>
    /\ radio_process_task = "created"
    /\ rpc = [is_running |-> FALSE, freq |-> 0, samp_rate |-> 0,
              motor |-> <<0, 0>>, cal_pwr |-> 0]
    /\ radio_up = TRUE
    /\ rotor_target = stow_location
    /\ rotor_position = stow_location
    /\ rotor_garbled = FALSE
    /\ status = <<>>
    /\ received = <<>>
    /\ glitches = 0
    /\ refusals = 0
    /\ dwells = 0
    /\ eph_cycle = [key |-> None, kept |-> TRUE]

(***************************************************************************)
(* Command ingress: update_command_queue.                                  *)
(***************************************************************************)
update_command_queue(c) ==
    /\ pc_main \notin {"start", "exited", "crashed"}
    /\ command_queue' = Append(command_queue, c)
    /\ received' = Append(received, c)
    /\ UNCHANGED <<pointVars, radioVars, current_queue_item, localVars,
                   ephemeris_locations, rotor_location, ephVars, pc_rotor,
                   rotorVars, radio_up, refusals, status, pc_main,
                   command_error_logs>>

\* the operator sends one of cmds, at most max commands in a run
Ingress(cmds, max) ==
    \E c \in cmds : Len(received) < max /\ update_command_queue(c)

\* the operator sends the commands of one of the scripts, in order
IngressScript(scripts) ==
    \E s \in scripts :
        /\ Len(received) < Len(s)
        /\ SubSeq(s, 1, Len(received)) = received
        /\ update_command_queue(s[Len(received) + 1])

(***************************************************************************)
(* The command interpreter: srt_daemon_main.                               *)
(***************************************************************************)
StartupNames == <<"Setting Frequency", "Setting Sample Rate",
                  "Setting Motor Azimuth", "Setting Motor Elevation",
                  "Setting System Temp", "Setting Calibration Temp",
                  "Setting Calibration Power", "Setting Calibration Values",
                  "Setting Is Running">>

\* start the radio process, push the initial parameters, start the threads.
\* A refused first call is not caught: the process ends before the loop.
Startup ==
    /\ pc_main = "start"
    /\ radio_process_task' = "running"
    /\ IF radio_up
       THEN /\ command_error_logs' = command_error_logs \o
                    [i \in 1..Len(StartupNames) |-> <<StartupNames[i], <<>>>>]
            /\ rpc' = [is_running |-> TRUE, freq |-> radio_center_frequency,
                       samp_rate |-> radio_sample_frequency,
                       motor |-> rotor_location, cal_pwr |-> cal_power]
            /\ pc_eph' = "refresh"
            /\ pc_rotor' = "test"
            /\ pc_main' = "top"
       ELSE /\ command_error_logs' =
                    log_message(command_error_logs, StartupNames[1], <<>>)
            /\ pc_main' = "crashed"
            /\ UNCHANGED <<rpc, pc_eph, pc_rotor>>
    /\ UNCHANGED <<pointVars, radio_center_frequency, radio_sample_frequency,
                   radio_save_raw_task, save_tasks, cal_power, queueVars,
                   localVars, ephemeris_locations, rotor_location,
                   eph_new_rotor_cmd_location, rotorVars, radio_up, received,
                   refusals, status>>

\* a loop that leaves the finished command in current_queue_item
LoopTop_Keep ==
    /\ pc_main = "top"
    /\ pc_main' = IF keep_running THEN "get" ELSE "shutdown"
    /\ UNCHANGED <<pointVars, radioVars, queueVars, localVars, notMain,
                   command_error_logs>>

\* while keep_running: ... self.current_queue_item = "None"
LoopTop ==
    /\ pc_main = "top"
    /\ IF keep_running
       THEN current_queue_item' = str_None /\ pc_main' = "get"
       ELSE UNCHANGED current_queue_item /\ pc_main' = "shutdown"
    /\ UNCHANGED <<pointVars, radioVars, command_queue, localVars, notMain,
                   command_error_logs>>

\* a get that takes the newest command of the queue
Get_Newest ==
    /\ pc_main = "get"
    /\ command_queue # <<>>
    /\ command' = command_queue[Len(command_queue)]
    /\ command_queue' = SubSeq(command_queue, 1, Len(command_queue) - 1)
    /\ pc_main' = "logrun"
    /\ UNCHANGED <<pointVars, radioVars, current_queue_item, keep_running,
                   command_parts, new_rotor_cmd_location, scan, j, exc, dwells,
                   notMain, command_error_logs>>

\* command = self.command_queue.get(): blocks while the queue is empty
Get ==
    /\ pc_main = "get"
    /\ command_queue # <<>>
    /\ command' = Head(command_queue)
    /\ command_queue' = Tail(command_queue)
    /\ pc_main' = "logrun"
    /\ UNCHANGED <<pointVars, radioVars, current_queue_item, keep_running,
                   command_parts, new_rotor_cmd_location, scan, j, exc, dwells,
                   notMain, command_error_logs>>

LogRunning ==
    /\ pc_main = "logrun"
    /\ command_error_logs' =
           log_message(command_error_logs, "Running Command", command)
    /\ pc_main' = "setcur"
    /\ UNCHANGED <<pointVars, radioVars, queueVars, localVars, notMain>>

IsComment(c) == Len(c) < 2 \/ c[1] = "*"
StripColon(c) == IF c[1] = ":" THEN Strip(Tail(c)) ELSE c

\* the branch of the if/elif chain a parsed command takes
Branch(parts) ==
    LET name == Lower(parts[1]) IN
    IF parts[1] \in DOMAIN ephemeris_locations
    THEN IF Len(parts) > 1 /\ parts[2] = <<"n">> THEN "scan"
         ELSE IF Len(parts) > 1 /\ parts[2] = <<"b">> THEN "beam"
         ELSE "track"
    ELSE IF IsNumeric(name) THEN "sleep"
    ELSE IF name = <<"w", "a", "i", "t">> THEN "wait"
    ELSE IF name = cmd_stow THEN "stow"
    ELSE IF name = cmd_calibrate THEN "calibrate"
    ELSE IF name = cmd_quit THEN "quit"
    ELSE IF name = cmd_record THEN "record"
    ELSE IF name = cmd_roff THEN "roff"
    ELSE IF name = <<"f", "r", "e", "q">> THEN "freq"
    ELSE IF name = <<"s", "a", "m", "p">> THEN "samp"
    ELSE IF name = <<"a", "z", "e", "l">> THEN "azel"
    ELSE IF name = <<"o", "f", "f", "s", "e", "t">> THEN "offset"
    ELSE "unknown"

\* self.current_queue_item = command, then the comment test, the ':' strip
\* and the split
SetCurrent ==
    /\ pc_main = "setcur"
    /\ current_queue_item' = command
    /\ IF IsComment(command)
       THEN pc_main' = "top" /\ UNCHANGED <<command, command_parts>>
       ELSE /\ command' = StripColon(command)
            /\ command_parts' = Split(command')
            /\ pc_main' = "dispatch"
    /\ UNCHANGED <<pointVars, radioVars, command_queue, keep_running,
                   new_rotor_cmd_location, scan, j, exc, dwells, notMain,
                   command_error_logs>>

AtBranch(b) == pc_main = "dispatch" /\ Branch(command_parts) = b

\* a step of the interpreter that only moves on
Goto(from, to) ==
    /\ pc_main = from
    /\ pc_main' = to

\* except IndexError / ValueError / ConnectionRefusedError: log str(e)
Raise(template, arg) ==
    /\ exc' = <<template, arg>>
    /\ pc_main' = "except"

\* no handler: the exception leaves the loop and ends the interpreter
ExceptLog_Propagate ==
    /\ Goto("except", "crashed")
    /\ UNCHANGED <<pointVars, radioVars, queueVars, localVars, notMain,
                   command_error_logs>>

ExceptLog ==
    /\ Goto("except", "top")
    /\ command_error_logs' = log_message(command_error_logs, exc[1], exc[2])
    /\ UNCHANGED <<pointVars, radioVars, queueVars, localVars, notMain>>

IndexErrorMsg == "list index out of range"
ValueErrorMsg == "could not convert string to float"
RefusedMsg == "[Errno 111] Connection refused"

(***************************************************************************)
(* Pointing commands.                                                      *)
(***************************************************************************)
\* range(25) of the N-point scan
ScanPoints == 25

\* el_dif and az_dif of scan position s about a target at elevation el
ScanElDif(s) == TruncDiv(((s \div 5) - 2) * beamwidth, 2)
ScanAzDif(s, el) ==
    DivCos(TruncDiv(((s % 5) - 2) * beamwidth, 2), el + ScanElDif(s))
\* az_dif of beam-switch position jj about a target at elevation el
BeamAzDif(jj, el) == DivCos(jj * beamwidth, el)

\* An assignment to self.ephemeris_cmd_location by the interpreter; the update
\* cycle in progress notes whether the tracked object stayed the same.
Retarget(v) ==
    /\ ephemeris_cmd_location' = v
    /\ eph_cycle' = [eph_cycle EXCEPT !.kept = @ /\ v = ephemeris_cmd_location]

\* <key> n: self.ephemeris_cmd_location = None; for scan in range(25)
ScanStart ==
    /\ AtBranch("scan")
    /\ Retarget(None)
    /\ scan' = 0
    /\ dwells' = 0
    /\ pc_main' = "scan_lookup"
    /\ UNCHANGED <<rotor_cmd_location, motor_offsets, radioVars, queueVars,
                   keep_running, command, command_parts,
                   new_rotor_cmd_location, j, exc, notMain, command_error_logs>>

ScanLookup ==
    /\ Goto("scan_lookup", "scan_offsets")
    /\ new_rotor_cmd_location' = ephemeris_locations[command_parts[1]]
    /\ UNCHANGED <<pointVars, radioVars, queueVars, keep_running, command,
                   command_parts, scan, j, exc, dwells, notMain,
                   command_error_logs>>

ScanOffsets ==
    /\ Goto("scan_offsets", "scan_cmd")
    /\ motor_offsets' = <<ScanAzDif(scan, new_rotor_cmd_location[2]),
                          ScanElDif(scan)>>
    /\ UNCHANGED <<ephemeris_cmd_location, eph_cycle, rotor_cmd_location, radioVars,
                   queueVars, localVars, notMain, command_error_logs>>

\* self.rotor_cmd_location = new_rotor_cmd_location + self.motor_offsets
SetCmdWithOffsets(from, to) ==
    /\ Goto(from, to)
    /\ rotor_cmd_location' = AddPose(new_rotor_cmd_location, motor_offsets)
    /\ UNCHANGED <<ephemeris_cmd_location, eph_cycle, motor_offsets, radioVars,
                   queueVars, localVars, notMain, command_error_logs>>

\* while not azel_within_range(rotor_location, rotor_cmd_location): sleep(0.1)
WaitInRange(from, to) ==
    /\ Goto(from, to)
    /\ azel_within_range(rotor_location, rotor_cmd_location)
    /\ UNCHANGED <<pointVars, radioVars, queueVars, localVars, notMain,
                   command_error_logs>>

ScanCmd == SetCmdWithOffsets("scan_cmd", "scan_wait")
ScanWait == WaitInRange("scan_wait", "scan_dwell")

\* a sweep whose loop stops one position early
ScanDwell_Short ==
    /\ pc_main = "scan_dwell"
    /\ dwells' = dwells + 1
    /\ IF scan + 1 < ScanPoints - 1
       THEN scan' = scan + 1 /\ pc_main' = "scan_lookup"
       ELSE UNCHANGED scan /\ pc_main' = "scan_clear"
    /\ UNCHANGED <<pointVars, radioVars, queueVars, keep_running, command,
                   command_parts, new_rotor_cmd_location, j, exc, notMain,
                   command_error_logs>>

\* sleep(5), then the next scan position
ScanDwell ==
    /\ pc_main = "scan_dwell"
    /\ dwells' = dwells + 1
    /\ IF scan + 1 < ScanPoints
       THEN scan' = scan + 1 /\ pc_main' = "scan_lookup"
       ELSE UNCHANGED scan /\ pc_main' = "scan_clear"
    /\ UNCHANGED <<pointVars, radioVars, queueVars, keep_running, command,
                   command_parts, new_rotor_cmd_location, j, exc, notMain,
                   command_error_logs>>

\* self.motor_offsets = (0, 0)
ClearOffsets(from, to) ==
    /\ Goto(from, to)
    /\ motor_offsets' = <<0, 0>>
    /\ UNCHANGED <<ephemeris_cmd_location, eph_cycle, rotor_cmd_location, radioVars,
                   queueVars, localVars, notMain, command_error_logs>>

\* self.ephemeris_cmd_location = command_parts[0]
SetTracked(from, to) ==
    /\ Goto(from, to)
    /\ Retarget(command_parts[1])
    /\ UNCHANGED <<rotor_cmd_location, motor_offsets, radioVars, queueVars,
                   localVars, notMain, command_error_logs>>

ScanClear == ClearOffsets("scan_clear", "scan_restore")
ScanRestore == SetTracked("scan_restore", "top")

\* <key> b: self.ephemeris_cmd_location = None
BeamStart ==
    /\ AtBranch("beam")
    /\ Retarget(None)
    /\ dwells' = 0
    /\ pc_main' = "beam_lookup"
    /\ UNCHANGED <<rotor_cmd_location, motor_offsets, radioVars, queueVars,
                   keep_running, command, command_parts,
                   new_rotor_cmd_location, scan, j, exc, notMain,
                   command_error_logs>>

\* the target is read once, before the loop: for j in range(-1, 1 + 1)
BeamLookup ==
    /\ Goto("beam_lookup", "beam_offsets")
    /\ new_rotor_cmd_location' = ephemeris_locations[command_parts[1]]
    /\ j' = -1
    /\ UNCHANGED <<pointVars, radioVars, queueVars, keep_running, command,
                   command_parts, scan, exc, dwells, notMain,
                   command_error_logs>>

BeamOffsets ==
    /\ Goto("beam_offsets", "beam_cmd")
    /\ motor_offsets' = <<BeamAzDif(j, new_rotor_cmd_location[2]), 0>>
    /\ UNCHANGED <<ephemeris_cmd_location, eph_cycle, rotor_cmd_location, radioVars,
                   queueVars, localVars, notMain, command_error_logs>>

BeamCmd == SetCmdWithOffsets("beam_cmd", "beam_wait")
BeamWait == WaitInRange("beam_wait", "beam_dwell")

BeamDwell ==
    /\ pc_main = "beam_dwell"
    /\ dwells' = dwells + 1
    /\ IF j < 1
       THEN j' = j + 1 /\ pc_main' = "beam_offsets"
       ELSE UNCHANGED j /\ pc_main' = "beam_clear"
    /\ UNCHANGED <<pointVars, radioVars, queueVars, keep_running, command,
                   command_parts, new_rotor_cmd_location, scan, exc, notMain,
                   command_error_logs>>

BeamClear == ClearOffsets("beam_clear", "beam_restore")
BeamRestore == SetTracked("beam_restore", "top")

\* <key>: read the catalog position and test it against the motor bounds
TrackLookup ==
    /\ AtBranch("track")
    /\ new_rotor_cmd_location' = ephemeris_locations[command_parts[1]]
    /\ pc_main' = IF angles_within_bounds(new_rotor_cmd_location')
                  THEN "track_set" ELSE "track_reject"
    /\ UNCHANGED <<pointVars, radioVars, queueVars, keep_running, command,
                   command_parts, scan, j, exc, dwells, notMain,
                   command_error_logs>>

TrackSet == SetTracked("track_set", "track_cmd")
TrackCmd == SetCmdWithOffsets("track_cmd", "track_wait")
TrackWait == WaitInRange("track_wait", "top")

TrackRejectLog ==
    /\ Goto("track_reject", "track_clear")
    /\ command_error_logs' = log_message(command_error_logs,
                                 "Object Not in Motor Bounds", command_parts[1])
    /\ UNCHANGED <<pointVars, radioVars, queueVars, localVars, notMain>>

\* self.ephemeris_cmd_location = None
ClearTracked(from, to) ==
    /\ Goto(from, to)
    /\ Retarget(None)
    /\ UNCHANGED <<rotor_cmd_location, motor_offsets, radioVars, queueVars,
                   localVars, notMain, command_error_logs>>

\* the reject branch without its last assignment
TrackRejectClear_Keep ==
    /\ Goto("track_clear", "top")
    /\ UNCHANGED <<pointVars, radioVars, queueVars, localVars, notMain,
                   command_error_logs>>

TrackRejectClear == ClearTracked("track_clear", "top")

\* stow
StowClear ==
    /\ AtBranch("stow")
    /\ Retarget(None)
    /\ pc_main' = "stow_cmd"
    /\ UNCHANGED <<rotor_cmd_location, motor_offsets, radioVars, queueVars,
                   localVars, notMain, command_error_logs>>

\* self.rotor_cmd_location = self.stow_location
SetCmdStow(from, to) ==
    /\ Goto(from, to)
    /\ rotor_cmd_location' = stow_location
    /\ UNCHANGED <<ephemeris_cmd_location, eph_cycle, motor_offsets, radioVars,
                   queueVars, localVars, notMain, command_error_logs>>

StowCmd == SetCmdStow("stow_cmd", "stow_wait")
StowWait == WaitInRange("stow_wait", "top")

\* (float(command_parts[1]), float(command_parts[2])), evaluated left to
\* right: the first failure is the exception raised
TwoFloats(parts) ==
    IF Len(parts) < 2 THEN [ok |-> FALSE, msg |-> IndexErrorMsg, arg |-> <<>>]
    ELSE IF ~Float(parts[2]).ok
    THEN [ok |-> FALSE, msg |-> ValueErrorMsg, arg |-> parts[2]]
    ELSE IF Len(parts) < 3
    THEN [ok |-> FALSE, msg |-> IndexErrorMsg, arg |-> <<>>]
    ELSE IF ~Float(parts[3]).ok
    THEN [ok |-> FALSE, msg |-> ValueErrorMsg, arg |-> parts[3]]
    ELSE [ok |-> TRUE, val |-> <<Float(parts[2]).val, Float(parts[3]).val>>]

\* azel <az> <el>: clear the tracked object, parse, test the bounds
AzelClear ==
    /\ AtBranch("azel")
    /\ Retarget(None)
    /\ LET r == TwoFloats(command_parts) IN
       IF ~r.ok
       THEN Raise(r.msg, r.arg) /\ UNCHANGED new_rotor_cmd_location
       ELSE /\ new_rotor_cmd_location' = r.val
            /\ pc_main' = IF angles_within_bounds(r.val)
                          THEN "azel_cmd" ELSE "azel_reject"
            /\ UNCHANGED exc
    /\ UNCHANGED <<rotor_cmd_location, motor_offsets, radioVars, queueVars,
                   keep_running, command, command_parts, scan, j, dwells,
                   notMain, command_error_logs>>

AzelCmd == SetCmdWithOffsets("azel_cmd", "azel_wait")
AzelWait == WaitInRange("azel_wait", "top")

AzelRejectLog ==
    /\ Goto("azel_reject", "top")
    /\ command_error_logs' = log_message(command_error_logs,
                        "Object at Not in Motor Bounds", new_rotor_cmd_location)
    /\ UNCHANGED <<pointVars, radioVars, queueVars, localVars, notMain>>

\* offset <daz> <del>
CmdOffset ==
    /\ AtBranch("offset")
    /\ LET r == TwoFloats(command_parts) IN
       IF ~r.ok
       THEN Raise(r.msg, r.arg) /\ UNCHANGED motor_offsets
       ELSE motor_offsets' = r.val /\ pc_main' = "top" /\ UNCHANGED exc
    /\ UNCHANGED <<ephemeris_cmd_location, eph_cycle, rotor_cmd_location, radioVars,
                   queueVars, keep_running, command, command_parts,
                   new_rotor_cmd_location, scan, j, dwells, notMain,
                   command_error_logs>>

(***************************************************************************)
(* Sleeps, radio commands, calibration, quit.                              *)
(***************************************************************************)
frameLocals == <<keep_running, command, command_parts, new_rotor_cmd_location,
                 scan, j, dwells>>

\* float(command_parts[1])
OneFloat(parts) ==
    IF Len(parts) < 2 THEN [ok |-> FALSE, msg |-> IndexErrorMsg, arg |-> <<>>]
    ELSE IF ~Float(parts[2]).ok
    THEN [ok |-> FALSE, msg |-> ValueErrorMsg, arg |-> parts[2]]
    ELSE [ok |-> TRUE, val |-> Float(parts[2]).val]

\* <integer-seconds>: sleep(float(command_name))
CmdSleep ==
    /\ AtBranch("sleep")
    /\ pc_main' = "top"
    /\ UNCHANGED <<pointVars, radioVars, queueVars, localVars, notMain,
                   command_error_logs>>

\* wait <secs>: sleep(float(command_parts[1])); a negative length is a
\* ValueError of sleep
CmdWait ==
    /\ AtBranch("wait")
    /\ LET r == OneFloat(command_parts) IN
       IF ~r.ok THEN Raise(r.msg, r.arg)
       ELSE IF r.val < 0
       THEN Raise("sleep length must be non-negative", <<>>)
       ELSE pc_main' = "top" /\ UNCHANGED exc
    /\ UNCHANGED <<pointVars, radioVars, queueVars, frameLocals, notMain,
                   command_error_logs>>

\* where calibration.json stands after the calibration task's 30 s join
CalFileOutcomes == {"written", "missing", "malformed"}

\* calibrate: run the task, reload calibration.json.  A missing file is an
\* OSError no handler of the loop catches; malformed JSON is a ValueError.
CmdCalibrate(outcome) ==
    /\ AtBranch("calibrate")
    /\ IF outcome = "written"
       THEN cal_power' = cal_power + 1 /\ pc_main' = "cal_push"
            /\ UNCHANGED exc
       ELSE IF outcome = "malformed"
       THEN Raise("Expecting value", <<>>) /\ UNCHANGED cal_power
       ELSE pc_main' = "crashed" /\ UNCHANGED <<exc, cal_power>>
    /\ UNCHANGED <<pointVars, radio_center_frequency, radio_sample_frequency,
                   radio_save_raw_task, save_tasks, radio_process_task, rpc,
                   queueVars, frameLocals, notMain, command_error_logs>>

\* set_cal_pwr, set_cal_values, then log "Calibration Done"
CalibratePush ==
    /\ pc_main = "cal_push"
    /\ IF radio_up
       THEN /\ rpc' = [rpc EXCEPT !.cal_pwr = cal_power]
            /\ command_error_logs' =
                   log_message(command_error_logs, "Calibration Done", <<>>)
            /\ pc_main' = "top"
            /\ UNCHANGED exc
       ELSE Raise(RefusedMsg, <<>>) /\ UNCHANGED <<rpc, command_error_logs>>
    /\ UNCHANGED <<pointVars, radio_center_frequency, radio_sample_frequency,
                   radio_save_raw_task, save_tasks, radio_process_task,
                   cal_power, queueVars, frameLocals, notMain>>

\* quit: keep_running = False; self.rpc_server.set_is_running(False)
CmdQuit ==
    /\ AtBranch("quit")
    /\ keep_running' = FALSE
    /\ IF radio_up
       THEN /\ rpc' = [rpc EXCEPT !.is_running = FALSE]
            /\ pc_main' = "top"
            /\ UNCHANGED exc
       ELSE Raise(RefusedMsg, <<>>) /\ UNCHANGED rpc
    /\ UNCHANGED <<pointVars, radio_center_frequency, radio_sample_frequency,
                   radio_save_raw_task, save_tasks, radio_process_task,
                   cal_power, queueVars, command, command_parts,
                   new_rotor_cmd_location, scan, j, dwells, notMain,
                   command_error_logs>>

\* RadioSaveRawTask(self.radio_sample_frequency, self.save_dir), started
NewSaveTask == [rate |-> radio_sample_frequency, state |-> "started"]
\* task.terminate()
Terminated(tasks, i) == [tasks EXCEPT ![i].state = "terminated"]

\* record without the test of the handle
CmdRecord_Unchecked ==
    /\ AtBranch("record")
    /\ pc_main' = "top"
    /\ save_tasks' = Append(save_tasks, NewSaveTask)
    /\ radio_save_raw_task' = <<Len(save_tasks) + 1>>
    /\ UNCHANGED <<pointVars, radio_center_frequency, radio_sample_frequency,
                   radio_process_task, rpc, cal_power, queueVars, localVars,
                   notMain, command_error_logs>>

\* record
CmdRecord ==
    /\ AtBranch("record")
    /\ pc_main' = "top"
    /\ IF radio_save_raw_task = NoTask
       THEN /\ save_tasks' = Append(save_tasks, NewSaveTask)
            /\ radio_save_raw_task' = <<Len(save_tasks) + 1>>
            /\ UNCHANGED command_error_logs
       ELSE /\ command_error_logs' = log_message(command_error_logs,
                      "Cannot Start Recording - Already Recording", <<>>)
            /\ UNCHANGED <<save_tasks, radio_save_raw_task>>
    /\ UNCHANGED <<pointVars, radio_center_frequency, radio_sample_frequency,
                   radio_process_task, rpc, cal_power, queueVars, localVars,
                   notMain>>

\* roff
CmdRoff ==
    /\ AtBranch("roff")
    /\ pc_main' = "top"
    /\ IF radio_save_raw_task # NoTask
       THEN /\ save_tasks' = Terminated(save_tasks, radio_save_raw_task[1])
            /\ radio_save_raw_task' = NoTask
       ELSE UNCHANGED <<save_tasks, radio_save_raw_task>>
    /\ UNCHANGED <<pointVars, radio_center_frequency, radio_sample_frequency,
                   radio_process_task, rpc, cal_power, queueVars, localVars,
                   notMain, command_error_logs>>

\* freq <MHz>: the RPC call comes first, then the field
CmdFreq ==
    /\ AtBranch("freq")
    /\ LET r == OneFloat(command_parts) IN
       IF ~r.ok
       THEN Raise(r.msg, r.arg) /\ UNCHANGED <<rpc, radio_center_frequency>>
       ELSE IF ~radio_up
       THEN Raise(RefusedMsg, <<>>) /\ UNCHANGED <<rpc, radio_center_frequency>>
       ELSE /\ rpc' = [rpc EXCEPT !.freq = r.val * Milli]
            /\ radio_center_frequency' = r.val * Milli
            /\ pc_main' = "top"
            /\ UNCHANGED exc
    /\ UNCHANGED <<pointVars, radio_sample_frequency, radio_save_raw_task,
                   save_tasks, radio_process_task, cal_power, queueVars,
                   frameLocals, notMain, command_error_logs>>

\* samp <MHz>: terminate the recording, if any
SampTerminate ==
    /\ AtBranch("samp")
    /\ pc_main' = "samp_set"
    /\ save_tasks' = IF radio_save_raw_task # NoTask
                     THEN Terminated(save_tasks, radio_save_raw_task[1])
                     ELSE save_tasks
    /\ UNCHANGED <<pointVars, radio_center_frequency, radio_sample_frequency,
                   radio_save_raw_task, radio_process_task, rpc, cal_power,
                   queueVars, localVars, notMain, command_error_logs>>

\* self.radio_sample_frequency = float(command_parts[1]) * pow(10, 6)
SampSet ==
    /\ pc_main = "samp_set"
    /\ LET r == OneFloat(command_parts) IN
       IF ~r.ok
       THEN Raise(r.msg, r.arg) /\ UNCHANGED radio_sample_frequency
       ELSE /\ radio_sample_frequency' = r.val * Milli
            /\ pc_main' = "samp_rpc"
            /\ UNCHANGED exc
    /\ UNCHANGED <<pointVars, radio_center_frequency, radio_save_raw_task,
                   save_tasks, radio_process_task, rpc, cal_power, queueVars,
                   frameLocals, notMain, command_error_logs>>

\* self.rpc_server.set_samp_rate(self.radio_sample_frequency)
SampRpc ==
    /\ pc_main = "samp_rpc"
    /\ IF radio_up
       THEN /\ rpc' = [rpc EXCEPT !.samp_rate = radio_sample_frequency]
            /\ pc_main' = "samp_restart"
            /\ UNCHANGED exc
       ELSE Raise(RefusedMsg, <<>>) /\ UNCHANGED rpc
    /\ UNCHANGED <<pointVars, radio_center_frequency, radio_sample_frequency,
                   radio_save_raw_task, save_tasks, radio_process_task,
                   cal_power, queueVars, frameLocals, notMain,
                   command_error_logs>>

\* if self.radio_save_raw_task is not None: a new task, started
SampRestart ==
    /\ Goto("samp_restart", "top")
    /\ IF radio_save_raw_task # NoTask
       THEN /\ save_tasks' = Append(save_tasks, NewSaveTask)
            /\ radio_save_raw_task' = <<Len(save_tasks) + 1>>
       ELSE UNCHANGED <<save_tasks, radio_save_raw_task>>
    /\ UNCHANGED <<pointVars, radio_center_frequency, radio_sample_frequency,
                   radio_process_task, rpc, cal_power, queueVars, localVars,
                   notMain, command_error_logs>>

\* anything else
CmdUnknown ==
    /\ AtBranch("unknown")
    /\ pc_main' = "top"
    /\ command_error_logs' =
           log_message(command_error_logs, "Command Not Identified", command)
    /\ UNCHANGED <<pointVars, radioVars, queueVars, localVars, notMain>>

(***************************************************************************)
(* Shutdown: after the loop.                                               *)
(***************************************************************************)
ShutdownStow == SetCmdStow("shutdown", "shutdown_wait")
ShutdownWait == WaitInRange("shutdown_wait", "shutdown_rec")

ShutdownRecording ==
    /\ Goto("shutdown_rec", "shutdown_proc")
    /\ IF radio_save_raw_task # NoTask
       THEN /\ save_tasks' = Terminated(save_tasks, radio_save_raw_task[1])
            /\ radio_save_raw_task' = NoTask
       ELSE UNCHANGED <<save_tasks, radio_save_raw_task>>
    /\ UNCHANGED <<pointVars, radio_center_frequency, radio_sample_frequency,
                   radio_process_task, rpc, cal_power, queueVars, localVars,
                   notMain, command_error_logs>>

\* self.radio_process_task.terminate(); the process ends, and with it the
\* daemon threads
ShutdownProcess ==
    /\ Goto("shutdown_proc", "exited")
    /\ radio_process_task' = "terminated"
    /\ UNCHANGED <<pointVars, radio_center_frequency, radio_sample_frequency,
                   radio_save_raw_task, save_tasks, rpc, cal_power, queueVars,
                   localVars, notMain, command_error_logs>>

(***************************************************************************)
(* The background threads.  They are daemon threads: they run from the     *)
(* moment srt_daemon_main starts them until the process ends.              *)
(***************************************************************************)
Running == pc_main \notin {"start", "exited", "crashed"}

mainState == <<pc_main, radioVars, queueVars, localVars>>

\* no update cycle in progress (the updater is in its sleep(5))
NoCycle == [key |-> None, kept |-> TRUE]

\* update_ephemeris_location: update_all_az_el, get_all_azimuth_elevation
EphRefresh ==
    /\ Running
    /\ pc_eph = "refresh"
    /\ ephemeris_locations' \in Catalogs
    /\ pc_eph' = "test"
    /\ eph_cycle' = [key |-> ephemeris_cmd_location, kept |-> TRUE]
    /\ UNCHANGED <<mainState, ephemeris_cmd_location, rotor_cmd_location,
                   motor_offsets, command_error_logs, rotor_location,
                   eph_new_rotor_cmd_location, pc_rotor, rotorVars, radio_up,
                   received, refusals, status>>

\* if self.ephemeris_cmd_location is not None; else sleep(5)
EphTest ==
    /\ Running
    /\ pc_eph = "test"
    /\ pc_eph' = IF ephemeris_cmd_location # None THEN "lookup" ELSE "refresh"
    /\ eph_cycle' = IF ephemeris_cmd_location # None THEN eph_cycle ELSE NoCycle
    /\ UNCHANGED <<mainState, ephemeris_cmd_location, rotor_cmd_location,
                   motor_offsets, command_error_logs, rotor_location,
                   ephemeris_locations, eph_new_rotor_cmd_location, pc_rotor,
                   rotorVars, radio_up, received, refusals, status>>

\* self.ephemeris_locations[self.ephemeris_cmd_location], a second read of
\* the field: None is no key of the catalog, and the KeyError ends the thread
EphLookup ==
    /\ Running
    /\ pc_eph = "lookup"
    /\ IF ephemeris_cmd_location \in DOMAIN ephemeris_locations
       THEN /\ eph_new_rotor_cmd_location' =
                   ephemeris_locations[ephemeris_cmd_location]
            /\ pc_eph' = IF angles_within_bounds(eph_new_rotor_cmd_location')
                         THEN "write" ELSE "log"
       ELSE pc_eph' = "dead" /\ UNCHANGED eph_new_rotor_cmd_location
    /\ UNCHANGED <<mainState, pointVars, command_error_logs, rotor_location,
                   ephemeris_locations, pc_rotor, rotorVars, radio_up,
                   received, refusals, status>>

\* a write of the tracked position that also resets the offsets
EphWrite_ResetOffsets ==
    /\ Running
    /\ pc_eph = "write"
    /\ rotor_cmd_location' = eph_new_rotor_cmd_location
    /\ motor_offsets' = <<0, 0>>
    /\ pc_eph' = "refresh"
    /\ eph_cycle' = NoCycle
    /\ UNCHANGED <<mainState, ephemeris_cmd_location, command_error_logs,
                   rotor_location, ephemeris_locations,
                   eph_new_rotor_cmd_location, pc_rotor, rotorVars, radio_up,
                   received, refusals, status>>

\* the write of the tracked position with the offsets left out
EphWrite_NoOffsets ==
    /\ Running
    /\ pc_eph = "write"
    /\ rotor_cmd_location' = eph_new_rotor_cmd_location
    /\ pc_eph' = "refresh"
    /\ eph_cycle' = NoCycle
    /\ UNCHANGED <<mainState, ephemeris_cmd_location, motor_offsets,
                   command_error_logs, rotor_location, ephemeris_locations,
                   eph_new_rotor_cmd_location, pc_rotor, rotorVars, radio_up,
                   received, refusals, status>>

\* self.rotor_cmd_location = new_rotor_cmd_location + self.motor_offsets
EphWrite ==
    /\ Running
    /\ pc_eph = "write"
    /\ rotor_cmd_location' = AddPose(eph_new_rotor_cmd_location, motor_offsets)
    /\ pc_eph' = "refresh"
    /\ eph_cycle' = NoCycle
    /\ UNCHANGED <<mainState, ephemeris_cmd_location, motor_offsets,
                   command_error_logs, rotor_location, ephemeris_locations,
                   eph_new_rotor_cmd_location, pc_rotor, rotorVars, radio_up,
                   received, refusals, status>>

\* log "Object <self.ephemeris_cmd_location> moved out of motor bounds"
EphLog ==
    /\ Running
    /\ pc_eph = "log"
    /\ command_error_logs' = log_message(command_error_logs,
                "Object moved out of motor bounds", ephemeris_cmd_location)
    /\ pc_eph' = "clear"
    /\ UNCHANGED <<mainState, pointVars, rotor_location, ephemeris_locations,
                   eph_new_rotor_cmd_location, pc_rotor, rotorVars, radio_up,
                   received, refusals, status>>

\* self.ephemeris_cmd_location = None
EphClear ==
    /\ Running
    /\ pc_eph = "clear"
    /\ ephemeris_cmd_location' = None
    /\ pc_eph' = "refresh"
    /\ eph_cycle' = NoCycle
    /\ UNCHANGED <<mainState, rotor_cmd_location, motor_offsets,
                   command_error_logs, rotor_location, ephemeris_locations,
                   eph_new_rotor_cmd_location, pc_rotor, rotorVars, radio_up,
                   received, refusals, status>>

\* update_rotor_status: if not azel_within_range(location, cmd_location)
RotTest ==
    /\ Running
    /\ pc_rotor = "test"
    /\ pc_rotor' = IF ~azel_within_range(rotor_location, rotor_cmd_location)
                   THEN "goto" ELSE "idle_read"
    /\ UNCHANGED <<mainState, pointVars, command_error_logs, rotor_location,
                   ephemeris_locations, ephVars, rotorVars, radio_up, received,
                   refusals, status>>

\* self.rotor.set_azimuth_elevation(*self.rotor_cmd_location): the driver
\* asserts the pose is within its limits; the AssertionError is logged and
\* the loop starts over, with no sleep.  The log keeps the first MaxRefusals
\* of these entries.
RotGoto ==
    /\ Running
    /\ pc_rotor = "goto"
    /\ IF angles_within_bounds(rotor_cmd_location)
       THEN /\ rotor_target' = rotor_cmd_location
            /\ pc_rotor' = "loop"
            /\ UNCHANGED <<command_error_logs, refusals>>
       ELSE /\ IF refusals < MaxRefusals
               THEN /\ refusals' = refusals + 1
                    /\ command_error_logs' =
                           log_message(command_error_logs, "AssertionError",
                                       rotor_cmd_location)
               ELSE UNCHANGED <<command_error_logs, refusals>>
            /\ pc_rotor' = "test"
            /\ UNCHANGED rotor_target
    /\ UNCHANGED <<mainState, pointVars, rotor_location, ephemeris_locations,
                   ephVars, rotor_position, rotor_garbled, glitches, radio_up,
                   received, status>>

\* while not azel_within_range(...) and (time() - start_time) < 10
RotLoopCheck(timed_out) ==
    /\ Running
    /\ pc_rotor = "loop"
    /\ pc_rotor' = IF ~azel_within_range(rotor_location, rotor_cmd_location)
                      /\ ~timed_out
                   THEN "loop_read" ELSE "test"
    /\ UNCHANGED <<mainState, pointVars, command_error_logs, rotor_location,
                   ephemeris_locations, ephVars, rotorVars, radio_up, received,
                   refusals, status>>

\* self.rotor_location = self.rotor.get_azimuth_elevation(), mirrored to the
\* radio by set_motor_az and set_motor_el; sleep(1).  A malformed response is
\* a ValueError, logged; a refused connection is caught by no handler of the
\* thread.
RotRead(from, to) ==
    /\ Running
    /\ pc_rotor = from
    /\ IF rotor_garbled
       THEN /\ rotor_garbled' = FALSE
            /\ command_error_logs' =
                   log_message(command_error_logs, "ValueError", <<>>)
            /\ pc_rotor' = "test"
            /\ UNCHANGED <<rotor_location, rpc>>
       ELSE /\ rotor_location' = rotor_position
            /\ IF radio_up
               THEN rpc' = [rpc EXCEPT !.motor = rotor_position]
                    /\ pc_rotor' = to
               ELSE UNCHANGED rpc /\ pc_rotor' = "dead"
            /\ UNCHANGED <<rotor_garbled, command_error_logs>>
    /\ UNCHANGED <<pc_main, radio_center_frequency, radio_sample_frequency,
                   radio_save_raw_task, save_tasks, radio_process_task,
                   cal_power, queueVars, localVars, pointVars,
                   ephemeris_locations, ephVars, rotor_target, rotor_position,
                   glitches, radio_up, received, refusals, status>>

RotLoopRead == RotRead("loop_read", "loop")
RotIdleRead == RotRead("idle_read", "test")

\* update_status: one snapshot, sent on the PUB socket
update_status ==
    /\ Running
    /\ status' = [motor_azel |-> rotor_location,
                  motor_cmd_azel |-> rotor_cmd_location,
                  object_locs |-> ephemeris_locations,
                  center_frequency |-> radio_center_frequency,
                  bandwidth |-> radio_sample_frequency,
                  motor_offsets |-> motor_offsets,
                  queued_item |-> current_queue_item,
                  queue_size |-> Len(command_queue),
                  error_logs |-> command_error_logs,
                  cal_power |-> cal_power]
    /\ UNCHANGED <<mainState, pointVars, command_error_logs, rotor_location,
                   ephemeris_locations, ephVars, pc_rotor, rotorVars, radio_up,
                   received, refusals>>

(***************************************************************************)
(* Outside the daemon: the rotor hardware and the radio RPC server.        *)
(***************************************************************************)
\* the rotor reaches the pose it was sent to
RotorMove ==
    /\ Running
    /\ rotor_position # rotor_target
    /\ rotor_position' = rotor_target
    /\ UNCHANGED <<mainState, pointVars, command_error_logs, rotor_location,
                   ephemeris_locations, ephVars, pc_rotor, rotor_target,
                   rotor_garbled, glitches, radio_up, received, refusals,
                   status>>

\* the rotor's next response is malformed
RotorGlitch ==
    /\ Running
    /\ glitches < MaxGlitches
    /\ ~rotor_garbled
    /\ rotor_garbled' = TRUE
    /\ glitches' = glitches + 1
    /\ UNCHANGED <<mainState, pointVars, command_error_logs, rotor_location,
                   ephemeris_locations, ephVars, pc_rotor, rotor_target,
                   rotor_position, radio_up, received, refusals, status>>

\* the radio RPC server stops, or starts, accepting connections
RadioFail ==
    /\ Running
    /\ radio_up
    /\ radio_up' = FALSE
    /\ UNCHANGED <<mainState, pointVars, command_error_logs, rotor_location,
                   ephemeris_locations, ephVars, pc_rotor, rotorVars, received,
                   refusals, status>>

RadioRecover ==
    /\ Running
    /\ ~radio_up
    /\ radio_up' = TRUE
    /\ UNCHANGED <<mainState, pointVars, command_error_logs, rotor_location,
                   ephemeris_locations, ephVars, pc_rotor, rotorVars, received,
                   refusals, status>>

(***************************************************************************)
(* Specifications.  Each one is the daemon with the commands of one family *)
(* arriving at the ingress; the threads that take part are all there.      *)
(***************************************************************************)
Loop == Startup \/ LoopTop \/ Get \/ LogRunning \/ SetCurrent
Updater == EphRefresh \/ EphTest \/ EphLookup \/ EphWrite \/ EphLog \/ EphClear
Servo ==
    \/ RotTest \/ RotGoto \/ (\E t \in BOOLEAN : RotLoopCheck(t))
    \/ RotLoopRead \/ RotIdleRead \/ RotorMove
Track ==
    \/ TrackLookup \/ TrackSet \/ TrackCmd \/ TrackWait
    \/ TrackRejectLog \/ TrackRejectClear
Stow == StowClear \/ StowCmd \/ StowWait
Azel == AzelClear \/ AzelCmd \/ AzelWait \/ AzelRejectLog
Shutdown == ShutdownStow \/ ShutdownWait \/ ShutdownRecording \/ ShutdownProcess

ScanN ==
    \/ ScanStart \/ ScanLookup \/ ScanOffsets \/ ScanCmd \/ ScanWait
    \/ ScanDwell \/ ScanClear \/ ScanRestore
BeamSwitch ==
    \/ BeamStart \/ BeamLookup \/ BeamOffsets \/ BeamCmd \/ BeamWait
    \/ BeamDwell \/ BeamClear \/ BeamRestore
Samp == SampTerminate \/ SampSet \/ SampRpc \/ SampRestart
Radio == RadioFail \/ RadioRecover

\* the updater and the servo while nothing is tracked and nothing moves
UpdaterIdle == EphRefresh \/ EphTest
ServoIdle == RotTest \/ RotIdleRead

\* manual pointing, offsets, tracking and stow
PointCmds == {cmd_offset_10_0, cmd_azel_355_45, cmd_azel_400_45, cmd_Sun,
              cmd_stow}
NextPoint ==
    \/ Ingress(PointCmds, MaxCmds)
    \/ Loop \/ Track \/ Stow \/ Azel \/ CmdOffset \/ Updater \/ Servo
SpecPoint == Init /\ [][NextPoint]_vars

\* object tracking
TrackCmds == {cmd_Sun, cmd_Cas}
NextTrack ==
    \/ Ingress(TrackCmds, MaxCmds)
    \/ Loop \/ Track \/ Updater \/ Servo
SpecTrack == Init /\ [][NextTrack]_vars

\* pointing commands and sleeps, in sequence
OrderCmds == {cmd_Sun, cmd_stow}
NextOrder ==
    \/ Ingress(OrderCmds, MaxCmds)
    \/ Loop \/ Track \/ Stow \/ Updater \/ Servo
SpecOrder == Init /\ [][NextOrder]_vars

\* raster scan and beam-switch: a session is a script of commands that track
\* the Sun, and a scan may end it
ScanCmds == {cmd_Sun_n, cmd_Sun_b, cmd_Cas_b}
ScanScripts ==
    {s \in UNION {[1..n -> ScanCmds \cup {cmd_Sun}] : n \in 1..MaxScanCmds} :
        \A i \in 1..(Len(s) - 1) : s[i] = cmd_Sun}
NextScan ==
    \/ IngressScript(ScanScripts)
    \/ Loop \/ Track \/ ScanN \/ BeamSwitch \/ Updater \/ Servo
SpecScan == Init /\ [][NextScan]_vars

\* recording and sample rate, with a radio RPC server that may refuse
RecCmds == {cmd_record, cmd_roff, cmd_samp_1, cmd_samp_noarg, cmd_quit}
NextRec ==
    \/ Ingress(RecCmds, MaxCmds)
    \/ Loop \/ CmdRecord \/ CmdRoff \/ Samp \/ CmdQuit \/ ExceptLog
    \/ Shutdown \/ UpdaterIdle \/ ServoIdle \/ Radio
SpecRec == Init /\ [][NextRec]_vars

\* quit while tracking and recording
QuitCmds == {cmd_Sun, cmd_record, cmd_quit}
NextQuit ==
    \/ Ingress(QuitCmds, MaxCmds)
    \/ Loop \/ Track \/ CmdRecord \/ CmdQuit \/ Shutdown \/ Updater \/ Servo
SpecQuit == Init /\ [][NextQuit]_vars

(***************************************************************************)
(* Properties of the daemon.                                               *)
(***************************************************************************)
\* the interpreter is in the wait loop of a pointing command it accepted
PointingWaitPcs ==
    {"scan_wait", "beam_wait", "track_wait", "stow_wait", "azel_wait"}

\* the commands the interpreter has dequeued, oldest first, are the
\* "Running Command" entries of the log and the one about to be logged
Started ==
    LET runs == SelectSeq(command_error_logs,
                          LAMBDA e : e[1] = "Running Command")
    IN  [i \in 1..Len(runs) |-> runs[i][2]]
        \o (IF pc_main = "logrun" THEN <<command>> ELSE <<>>)

\* C1: after any pointing command the interpreter accepts (track, scan,
\* beam-switch, azel, stow), the commanded pose it waits for lies within the
\* azimuth and elevation limits.
C1_AcceptedPoseInBounds ==
    pc_main \in PointingWaitPcs => angles_within_bounds(rotor_cmd_location)

\* C2: when the interpreter has left through quit, the commanded pose is the
\* stow pose, the measured pose is within tolerance of it, no recording is
\* bound or live, and the radio's is_running flag is false.
C2_QuitLeavesStowed ==
    pc_main = "exited" =>
        /\ rotor_cmd_location = stow_location
        /\ azel_within_range(rotor_location, stow_location)
        /\ radio_save_raw_task = NoTask
        /\ LiveTasks = {}
        /\ rpc.is_running = FALSE

\* an update cycle ends: the updater reaches its sleep(5)
CycleEnds == pc_eph \in {"test", "write", "clear"} /\ pc_eph' = "refresh"

\* what the end of a cycle that began with tracked object k is to show; the
\* cycle ends from its last assignment only after it has logged
CyclePost(k) ==
    /\ k \in DOMAIN ephemeris_locations'
    /\ LET P == ephemeris_locations'[k] IN
       IF angles_within_bounds(P)
       THEN rotor_cmd_location' = AddPose(P, motor_offsets')
       ELSE ephemeris_cmd_location' = None /\ pc_eph = "clear"

\* the updater's logging step appends the entry that names k
CycleLogs(k) ==
    pc_eph = "log" /\ pc_eph' = "clear" =>
        command_error_logs' = Append(command_error_logs,
            <<"Object moved out of motor bounds", k>>)

\* C3 as stated: at the end of every update cycle that began with tracked
\* object k, k is a catalog key and either the refreshed position P is in
\* bounds and the commanded pose is P + motor_offsets, or the tracked object
\* is None and the cycle has logged 'Object k moved out of motor bounds'.
C3_CyclePostcondition ==
    [][eph_cycle.key # None =>
           /\ CycleLogs(eph_cycle.key)
           /\ CycleEnds => CyclePost(eph_cycle.key)]_vars

\* C3, amended: the same postcondition at the end of every update cycle that
\* began with tracked object k and during which the interpreter did not
\* change the tracked object.
C3_UndisturbedCyclePostcondition ==
    [][eph_cycle.key # None /\ eph_cycle.kept =>
           /\ CycleLogs(eph_cycle.key)
           /\ CycleEnds => CyclePost(eph_cycle.key)]_vars

\* the updater has moved the commanded pose with the Sun (the pose is not the
\* one the track command stored), and a later cycle has seen the Sun set,
\* logged it and cleared the tracked object
C3_Witness ==
    /\ pc_eph = "refresh"
    /\ ephemeris_cmd_location = None
    /\ \E i \in DOMAIN command_error_logs :
           command_error_logs[i] = <<"Object moved out of motor bounds", Sun>>
    /\ \E p \in SkyPositions(Sun) :
           /\ angles_within_bounds(p)
           /\ p # new_rotor_cmd_location
           /\ rotor_cmd_location = AddPose(p, motor_offsets)

\* a step of the interpreter on the reject path of a plain track command
TrackRejectStep ==
    /\ pc_main' # pc_main
    /\ \/ AtBranch("track") /\ pc_main' = "track_reject"
       \/ pc_main \in {"track_reject", "track_clear"}

\* C4: a plain track command whose catalog position is outside the motor
\* limits changes neither the commanded pose nor the motor offsets, appends
\* 'Object <key> Not in Motor Bounds' to the log and ends with the tracked
\* object None; the command is rejected exactly when a component of the
\* position lies strictly outside its limits, so a position on a limit is
\* accepted.
C4_TrackOutOfBounds ==
    [][/\ AtBranch("track") /\ pc_main' # pc_main =>
              LET P == ephemeris_locations[command_parts[1]] IN
              (pc_main' = "track_reject") <=>
                  \/ P[1] < az_limits[1] \/ P[1] > az_limits[2]
                  \/ P[2] < el_limits[1] \/ P[2] > el_limits[2]
       /\ TrackRejectStep =>
              /\ rotor_cmd_location' = rotor_cmd_location
              /\ motor_offsets' = motor_offsets
       /\ pc_main = "track_reject" /\ pc_main' # pc_main =>
              command_error_logs' = Append(command_error_logs,
                  <<"Object Not in Motor Bounds", command_parts[1]>>)
       /\ TrackRejectStep /\ pc_main' = "top" =>
              ephemeris_cmd_location' = None]_vars

\* Cas, on the upper limits, was accepted and is the commanded pose; the Sun,
\* below the horizon, was then rejected, logged, and nothing is tracked
C4_Witness ==
    /\ pc_main = "top"
    /\ current_queue_item = cmd_Sun
    /\ Started = <<cmd_Cas, cmd_Sun>>
    /\ rotor_cmd_location = AddPose(<<az_limits[2], el_limits[2]>>,
                                    motor_offsets)
    /\ ephemeris_cmd_location = None
    /\ command_error_logs[Len(command_error_logs)] =
           <<"Object Not in Motor Bounds", Sun>>

\* the interpreter finishes the command it holds
ReturnsToTop == pc_main \notin {"start", "top"} /\ pc_main' = "top"

\* C5: the commands are executed in the order ingress enqueued them, one at a
\* time: what has been dequeued followed by what is queued is what was
\* received, the queue loses only its head and only to an idle interpreter,
\* and a pointing command returns only from its wait, with the measured pose
\* within range of the commanded pose, before the next command is dequeued.
C5_InOrderOneAtATime ==
    /\ [](Started \o command_queue = received)
    /\ [][/\ command_queue' # command_queue =>
                 \/ \E c \in OrderCmds : command_queue' = Append(command_queue, c)
                 \/ /\ pc_main = "get" /\ command_queue # <<>>
                    /\ command' = Head(command_queue)
                    /\ command_queue' = Tail(command_queue)
          /\ pc_main # "get" /\ pc_main' = "get" => pc_main = "top"
          /\ ReturnsToTop /\ current_queue_item = cmd_stow =>
                 pc_main = "stow_wait"
          /\ ReturnsToTop /\ current_queue_item = cmd_Sun =>
                 pc_main \in {"track_wait", "track_clear"}
          /\ pc_main \in PointingWaitPcs /\ pc_main' # pc_main =>
                 azel_within_range(rotor_location, rotor_cmd_location)]_vars

\* two different pointing commands were received; the first has finished its
\* wait without another entry in the log, and the second has just been dequeued
C5_Witness ==
    /\ Len(Started) = 2
    /\ Started[1] # Started[2]
    /\ Started = received
    /\ pc_main = "logrun"
    /\ \E i \in DOMAIN command_error_logs :
           /\ command_error_logs[i] = <<"Running Command", Started[1]>>
           /\ Len(command_error_logs) = i

\* C6: under any sequence of record, roff, samp and quit commands at most
\* one recording session is started and not terminated; a record command
\* issued while a session is live starts no session, changes no field of the
\* daemon and appends 'Cannot Start Recording - Already Recording' to the log.
C6_AtMostOneRecording ==
    /\ [](Cardinality(LiveTasks) <= 1)
    /\ [][AtBranch("record") /\ pc_main' # pc_main /\ LiveTasks # {} =>
              /\ command_error_logs' = Append(command_error_logs,
                     <<"Cannot Start Recording - Already Recording", <<>>>>)
              /\ UNCHANGED <<save_tasks, radio_save_raw_task,
                             radio_center_frequency, radio_sample_frequency,
                             radio_process_task, rpc, cal_power, pointVars,
                             queueVars, rotor_location,
                             ephemeris_locations>>]_vars

\* a second record arrived while the first session was live: it was refused
\* in the log and the one session is still the recording
C6_Witness ==
    /\ Started = <<cmd_record, cmd_record>>
    /\ pc_main = "top"
    /\ Cardinality(LiveTasks) = 1
    /\ radio_save_raw_task = <<1>>
    /\ command_error_logs[Len(command_error_logs)] =
           <<"Cannot Start Recording - Already Recording", <<>>>>

\* the interpreter has just finished command c: what it holds is still c
Finished(c) == pc_main = "top" /\ current_queue_item = c

\* C7: when an azel A E has been carried out with motor_offsets = (daz, del),
\* the commanded pose is (A + daz, E + del) exactly when (A, E) is within the
\* limits, whatever the ephemeris updater does in between and whether or not
\* an object was tracked before.
C7_OffsetThenAzel ==
    \A c \in {cmd_azel_355_45, cmd_azel_400_45} :
        Finished(c) =>
            LET AE == TwoFloats(Split(c)).val IN
            (rotor_cmd_location = AddPose(AE, motor_offsets))
                <=> angles_within_bounds(AE)

\* C8: when a stow has been carried out, once or twice in a row, the commanded
\* pose is the stow pose with no offset added and no object is tracked,
\* whatever the state before and whatever the ephemeris updater does.
C8_StowIdempotent ==
    Finished(cmd_stow) =>
        /\ rotor_cmd_location = stow_location
        /\ ephemeris_cmd_location = None

\* where the interpreter is during the sweep of a raster scan / a beam-switch
ScanSweepPcs ==
    {"scan_lookup", "scan_offsets", "scan_cmd", "scan_wait", "scan_dwell"}
BeamSweepPcs ==
    {"beam_lookup", "beam_offsets", "beam_cmd", "beam_wait", "beam_dwell"}
InterpreterStep == pc_main' # pc_main \/ scan' # scan \/ j' # j

C10_SampRestartsRecording ==
    Finished(cmd_samp_1) =>
        /\ radio_sample_frequency = 1000000
        /\ IF radio_save_raw_task = NoTask
           THEN LiveTasks = {}
           ELSE /\ LiveTasks = {radio_save_raw_task[1]}
                /\ save_tasks[radio_save_raw_task[1]].rate = 1000000
                /\ \A i \in 1..(radio_save_raw_task[1] - 1) :
                       save_tasks[i].state = "terminated"

(***************************************************************************)
(* Recording sessions over three commands.                                 *)
(***************************************************************************)
\* the commands of a recording session the operator sends in a run
MaxSessionCmds == 3

\* record, roff and samp, with a radio RPC server that may refuse
SessionCmds == {cmd_record, cmd_roff, cmd_samp_1, cmd_samp_noarg}
NextSession ==
    \/ Ingress(SessionCmds, MaxSessionCmds)
    \/ Loop \/ CmdRecord \/ CmdRoff \/ Samp \/ ExceptLog
    \/ UpdaterIdle \/ Servo \/ Radio
SpecSession == Init /\ [][NextSession]_vars

\* C11: a roff leaves the handle absent and no session live, so that record
\* followed by roff ends with the started session terminated; a roff carried
\* out while no session is live changes no field of the daemon.
C11_RecordThenRoff ==
    [][AtBranch("roff") /\ pc_main' # pc_main =>
           /\ radio_save_raw_task' = NoTask
           /\ LiveTasks' = {}
           /\ LiveTasks = {} =>
                  UNCHANGED <<radioVars, pointVars, queueVars,
                              command_error_logs, rotor_location,
                              ephemeris_locations>>]_vars

(***************************************************************************)
(* Comments, blank lines, the ':' prefix and unknown commands.             *)
(***************************************************************************)
ParseCmds == {cmd_comment, cmd_short, cmd_blank, cmd_colon_stow, cmd_bogus,
              cmd_STOW}
NextParse ==
    \/ Ingress(ParseCmds, MaxCmds)
    \/ Loop \/ Stow \/ CmdUnknown \/ UpdaterIdle \/ Servo
SpecParse == Init /\ [][NextParse]_vars

\* the interpreter is between its reset of current_queue_item and the
\* assignment that follows the dequeue and the "Running Command" entry
BeforeCurrent == pc_main \in {"get", "logrun", "setcur"}
\* the interpreter is carrying out the command it made current
Executing == pc_main \notin {"start", "top", "crashed"} /\ ~BeforeCurrent

\* C12 as stated: from the dequeue of a command C on, current_queue_item is
\* C (until the interpreter turns to the queue again), and it is "None"
\* whenever the interpreter is blocked on an empty queue.
C12_CurrentItemFromDequeue ==
    /\ Started # <<>> /\ pc_main # "get" =>
           current_queue_item = Started[Len(Started)]
    /\ pc_main = "get" /\ command_queue = <<>> =>
           current_queue_item = str_None

\* C12: current_queue_item is the dequeued command C, as it was received,
\* in every state from the assignment that follows C's "Running Command"
\* entry until the interpreter has carried C out; it is "None" from the
\* start of the next loop iteration until that assignment, in particular
\* whenever the interpreter is blocked on an empty queue.
C12_CurrentItemWhileExecuting ==
    /\ Executing =>
           /\ Started # <<>>
           /\ current_queue_item = Started[Len(Started)]
           /\ current_queue_item = received[Len(Started)]
    /\ BeforeCurrent => current_queue_item = str_None

\* the second command, ": stow", is being carried out after the first was:
\* the item shown is the command as received, the one parsed is stripped
C12_Witness ==
    /\ pc_main = "stow_wait"
    /\ Len(Started) = 2
    /\ current_queue_item = cmd_colon_stow
    /\ command = cmd_stow

\* C13: a command shorter than 2 characters, beginning with '*' or made of
\* whitespace only is a no-op: the steps the interpreter takes for it after its
\* "Running Command" entry change no pointing, offset, tracking, radio or
\* recording state and append nothing to the log, so no 'Command Not
\* Identified' entry names it.
C13_CommentsAreNoOps ==
    [][/\ command \in {cmd_comment, cmd_short, cmd_blank}
       /\ pc_main \in {"setcur", "dispatch"}
       /\ pc_main' # pc_main
       => /\ UNCHANGED <<ephemeris_cmd_location, rotor_cmd_location,
                         motor_offsets, radioVars>>
          /\ command_error_logs' = command_error_logs]_vars

\* C14: the ephemeris updater writes the commanded pose only while an object
\* is tracked at the moment of the write: once the interpreter has cleared
\* the tracked object (scan, beam-switch, stow, azel) and stored its own
\* commanded pose, no write of the updater replaces that pose while nothing
\* is tracked.
C14_UpdaterWritesOnlyWhileTracking ==
    [][rotor_cmd_location' # rotor_cmd_location /\ pc_eph' # pc_eph =>
           ephemeris_cmd_location # None]_vars

(***************************************************************************)
(* All five threads, with the commands that write the daemon's fields.     *)
(***************************************************************************)
WriterScripts ==
    {<<cmd_Sun>>, <<cmd_offset_10_0>>, <<cmd_freq_1420>>, <<cmd_samp_1>>,
     <<cmd_record, cmd_roff>>}
NextWriters ==
    \/ IngressScript(WriterScripts)
    \/ Loop \/ Track \/ CmdOffset \/ CmdFreq \/ Samp \/ CmdRecord \/ CmdRoff
    \/ Updater \/ Servo \/ update_status
SpecWriters == Init /\ [][NextWriters]_vars

\* C15 as stated: every step that changes the tracked object, the offsets,
\* the radio's centre frequency or sample rate, or the recording handle is a
\* step of the command interpreter; the steps of the updater, the servo, the
\* ingress and the status publisher leave all five unchanged.
C15_OnlyInterpreterWrites ==
    [][~InterpreterStep =>
           UNCHANGED <<ephemeris_cmd_location, motor_offsets,
                       radio_center_frequency, radio_sample_frequency,
                       radio_save_raw_task>>]_vars

\* C15: every step that changes the offsets, the radio's centre frequency or
\* sample rate, or the recording handle is a step of the command
\* interpreter, and so is every step that changes the tracked object, except
\* the updater's clearing of it when the tracked object has moved out of
\* bounds; the steps of the servo, the ingress and the status publisher
\* leave all five unchanged.
C15_WritersOfFields ==
    [][~InterpreterStep =>
           /\ UNCHANGED <<motor_offsets, radio_center_frequency,
                          radio_sample_frequency, radio_save_raw_task>>
           /\ ephemeris_cmd_location' # ephemeris_cmd_location =>
                  /\ pc_eph = "clear" /\ pc_eph' = "refresh"
                  /\ ephemeris_cmd_location' = None
                  /\ ~angles_within_bounds(ephemeris_locations[
                                               ephemeris_cmd_location])]_vars

\* the Sun was tracked and has set: the updater logged it and cleared the
\* tracked object, and the publisher has sent the log with that entry
C15_Witness ==
    /\ Started = <<cmd_Sun>>
    /\ Finished(cmd_Sun)
    /\ ephemeris_cmd_location = None
    /\ pc_eph = "refresh"
    /\ command_error_logs[Len(command_error_logs)] =
           <<"Object moved out of motor bounds", Sun>>
    /\ status # <<>>
    /\ status.error_logs = command_error_logs

(***************************************************************************)
(* Radio commands against an RPC server that may refuse.                   *)
(***************************************************************************)
RpcCmds == {cmd_freq_1420, cmd_samp_1, cmd_calibrate}
NextRpc ==
    \/ Ingress(RpcCmds, MaxCmds)
    \/ Loop \/ CmdFreq \/ Samp
    \/ (\E outcome \in CalFileOutcomes : CmdCalibrate(outcome))
    \/ CalibratePush \/ ExceptLog
    \/ UpdaterIdle \/ Servo \/ Radio
SpecRpc == Init /\ [][NextRpc]_vars

\* the interpreter is at the RPC call of a freq, samp or calibrate command
AtCommandRpc ==
    \/ AtBranch("freq") /\ OneFloat(command_parts).ok
    \/ pc_main \in {"samp_rpc", "cal_push"}

\* C16: when the RPC call of a freq, samp or calibrate is refused, the rest of
\* the command is skipped (no field, no RPC value and no session changes, and
\* 'Calibration Done' is not logged), the refusal is the next entry of the
\* log, and the interpreter is back at the top of its loop with keep_running
\* still set, so it goes on to the next command: no step of a refused command
\* ends the interpreter.
C16_RefusedRpcIsLogged ==
    [][/\ AtCommandRpc /\ ~radio_up /\ InterpreterStep =>
              /\ pc_main' = "except"
              /\ exc' = <<RefusedMsg, <<>>>>
              /\ UNCHANGED <<radioVars, command_error_logs, keep_running>>
       /\ pc_main = "except" /\ InterpreterStep =>
              /\ pc_main' = "top"
              /\ command_error_logs' = Append(command_error_logs, exc)
              /\ keep_running' = TRUE
              /\ UNCHANGED <<radioVars, pointVars, queueVars>>]_vars

\* a freq was refused and logged, and the interpreter went on to the samp
\* that followed it and carried it out
C16_Witness ==
    /\ Started = <<cmd_freq_1420, cmd_samp_1>>
    /\ Finished(cmd_samp_1)
    /\ radio_center_frequency = config_radio_cf
    /\ radio_sample_frequency = 1000000
    /\ \E i \in 2..(Len(command_error_logs) - 1) :
           /\ command_error_logs[i] = <<RefusedMsg, <<>>>>
           /\ command_error_logs[i - 1] = <<"Running Command", cmd_freq_1420>>
           /\ command_error_logs[i + 1] = <<"Running Command", cmd_samp_1>>

(***************************************************************************)
(* Manual pointing with a rotor that may garble a response, under the      *)
(* scheduling of the threads: every thread that can take a step eventually *)
(* takes one, a servo that keeps testing its 10 s window finds it open     *)
(* again and again (after each goto) and closed again and again (10 s      *)
(* later), and the rotor reaches the pose it was sent to.  Nothing is      *)
(* tracked, and the ephemeris updater, which then only refreshes the       *)
(* catalog, is left out.                                                   *)
(***************************************************************************)
\* an azel with the configured offsets, or after an offset command
ManualScripts == {<<cmd_azel_355_45>>, <<cmd_offset_10_0, cmd_azel_355_45>>}
\* the interpreter, with the branches of an azel within the limits
Interpreter == Loop \/ AzelClear \/ AzelCmd \/ AzelWait \/ CmdOffset
ServoThread ==
    \/ RotTest \/ RotGoto \/ (\E t \in BOOLEAN : RotLoopCheck(t))
    \/ RotLoopRead \/ RotIdleRead
NextManual ==
    \/ IngressScript(ManualScripts)
    \/ Interpreter \/ ServoThread \/ RotorMove \/ RotorGlitch
SpecManual == Init /\ [][NextManual]_vars
FairManual ==
    /\ SpecManual
    /\ WF_vars(Interpreter)
    /\ WF_vars(ServoThread)
    /\ SF_vars(RotLoopCheck(FALSE))
    /\ SF_vars(RotLoopCheck(TRUE))
    /\ WF_vars(RotorMove)

\* the servo is at a driver call that raises: a goto to a pose outside the
\* limits, or a read of a garbled response
DriverErrorRaised ==
    \/ pc_rotor = "goto" /\ ~angles_within_bounds(rotor_cmd_location)
    \/ pc_rotor \in {"loop_read", "idle_read"} /\ rotor_garbled
\* the servo is at a read of the measured pose that succeeds
ReadsMeasuredPose ==
    pc_rotor \in {"loop_read", "idle_read"} /\ ~rotor_garbled

\* C17: an error of the rotor driver in the servo loop (the assertion of a
\* goto out of bounds, the invalid value of a read) is caught and the loop
\* starts over, and after any such error the servo eventually reads the
\* measured pose again.
C17_ServoReadsAgain ==
    /\ [][DriverErrorRaised /\ pc_rotor' # pc_rotor => pc_rotor' = "test"]_vars
    /\ (DriverErrorRaised ~> ReadsMeasuredPose)

\* C18: the ephemeris updater never dies: whatever the interpreter does to
\* the tracked object between the updater's test and its lookup of the
\* catalog, the lookup raises nothing that ends the thread.
C18_UpdaterNeverDies == pc_eph # "dead"

\* C19: between commands the recording handle is present exactly when a
\* recording session is live; in particular a samp that fails after it has
\* terminated the session does not leave the handle on the terminated
\* session.
C19_HandleIffLive ==
    pc_main \in {"top", "get"} =>
        (radio_save_raw_task # NoTask <=> LiveTasks # {})

\* C20: with a rotor that reaches every pose within the limits it is sent to,
\* the wait of every pointing command the interpreter accepted comes to an
\* end, whatever the offsets are: the interpreter never waits for ever on a
\* commanded pose the driver refuses.
C20_PointingWaitEnds ==
    (pc_main \in PointingWaitPcs) ~> (pc_main \notin PointingWaitPcs)

(***************************************************************************)
(* Manual pointing and stow against a radio RPC server that may refuse.    *)
(***************************************************************************)
MirrorCmds == {cmd_azel_180_45, cmd_stow}
NextMirror ==
    \/ Ingress(MirrorCmds, MaxCmds)
    \/ Loop \/ AzelClear \/ AzelCmd \/ AzelWait \/ Stow
    \/ UpdaterIdle \/ Servo \/ Radio
SpecMirror == Init /\ [][NextMirror]_vars

\* C21: the rotor servo keeps running when the radio's RPC server refuses a
\* connection while the servo mirrors the measured pose (set_motor_az,
\* set_motor_el): the refusal does not end the servo loop.
C21_ServoSurvivesRefusedRpc == pc_rotor # "dead"

====
